---- MODULE Spec2Model ----
(***************************************************************************)
(* The Minesweeper knowledge-based agent of                                *)
(* 01-knowledge/projects/minesweeper/minesweeper.py: Sentence,             *)
(* MinesweeperAI and the board oracle Minesweeper.nearby_mines.            *)
(*                                                                         *)
(* A cell is a pair <<i, j>>.  A Sentence is a record [cells, count]; the  *)
(* knowledge base is the list of sentences, in the order of the Python     *)
(* list.  add_knowledge is modelled statement block by statement block: pc *)
(* is the position inside the call, and every MinesweeperAI.mark_safe /    *)
(* mark_mine application of the closure loop is a step of its own.         *)
(***************************************************************************)
EXTENDS Integers, Sequences, FiniteSets, TLC

\* Boards of the model: height in 1..MaxHeight, width in 1..MaxWidth, at most
\* MaxCells cells, and height <= width (the code treats rows and columns alike, so
\* a board and its transpose behave the same).
MaxHeight == 2
MaxWidth == 3
MaxCells == 6
\* Largest number of mines in a layout of the oracle-driven specification.
MaxMines == 2
\* Largest number of observations of one game.
MaxCalls == 3
\* Largest number of add_knowledge calls made by the unconstrained caller.
MaxAnyCalls == 2
\* Largest count passed to add_knowledge by the unconstrained caller.
MaxCount == 1
\* Largest number of direct mark_safe / mark_mine calls by the unconstrained caller.
MaxMarks == 1
\* Longest knowledge base the unconstrained specification follows.
MaxSentences == 6

VARIABLES
    height,         \* MinesweeperAI.height (and Minesweeper.height)
    width,          \* MinesweeperAI.width (and Minesweeper.width)
    board,          \* Minesweeper.mines: the cells that hold a mine (ground truth)
    moves_made,     \* MinesweeperAI.moves_made
    safes,          \* MinesweeperAI.safes
    mines,          \* MinesweeperAI.mines
    knowledge,      \* MinesweeperAI.knowledge, a list of sentences
    pc,             \* position inside add_knowledge, "idle" between calls
    updated,        \* local `updated` of add_knowledge
    safes_to_add,   \* local `safes_to_add`
    mines_to_add,   \* local `mines_to_add`
    todo,           \* cells the running `for safe in ...` / `for mine in ...` has still to visit
    new_sentences,  \* local `new_sentences`
    op,             \* name of the last call made
    arg,            \* arguments of the last call, as a tuple
    ret,            \* value returned by the last completed call
    calls,          \* number of add_knowledge calls made so far
    marks,          \* number of direct mark_safe / mark_mine calls made so far
    sentence        \* a Sentence object of its own, None when there is none

vars == <<height, width, board, moves_made, safes, mines, knowledge, pc, updated, safes_to_add,
          mines_to_add, todo, new_sentences, op, arg, ret, calls, marks, sentence>>

\* Python's None. Every value of `ret` is a tuple, so that any two of them can
\* be compared: None is the empty tuple, a cell is a pair, and a truth value is
\* the tuple of that one value.
None == <<>>

\* {(i, j) for i in range(height) for j in range(width)}
Cells == {<<i, j>> : i \in 0..(height - 1), j \in 0..(width - 1)}

\* The cells (ni, nj) != cell with ni in range(i-1, i+2), nj in range(j-1, j+2)
\* that lie on the board.
Neighbors(cell) ==
    {n \in Cells : /\ n # cell
                   /\ n[1] \in (cell[1] - 1)..(cell[1] + 1)
                   /\ n[2] \in (cell[2] - 1)..(cell[2] + 1)}

\* Minesweeper.nearby_mines on the layout b.
nearby_mines(b, cell) == Cardinality({n \in Neighbors(cell) : n \in b})

\* The outcome of a list index that is out of range.
IndexError == "IndexError"

\* Minesweeper.is_mine on the layout b: self.board[i][j] on a list of height rows
\* of width entries. An index from -len to -1 counts from the end of the list;
\* an index outside -len .. len-1 raises IndexError.
is_mine(b, cell) ==
    IF /\ cell[1] \in (-height)..(height - 1)
       /\ cell[2] \in (-width)..(width - 1)
    THEN <<cell[1] % height, cell[2] % width>> \in b
    ELSE IndexError

---------------------------------------------------------------------------
\* Sentence

\* Sentence.__init__: the sentence owns a copy of the cell set.
Sentence(cells, count) == [cells |-> cells, count |-> count]

\* Variant of Sentence.known_mines that compares with <= instead of ==.
known_mines_at_most(s) ==
    IF Cardinality(s.cells) <= s.count /\ s.count # 0 THEN s.cells ELSE {}

\* Sentence.known_mines
known_mines(s) ==
    IF Cardinality(s.cells) = s.count /\ s.count # 0 THEN s.cells ELSE {}

\* Variant of Sentence.known_safes that tests `self.count <= 0`.
known_safes_nonpositive(s) ==
    IF s.count <= 0 THEN s.cells ELSE {}

\* Sentence.known_safes
known_safes(s) ==
    IF s.count = 0 THEN s.cells ELSE {}

\* Variant of Sentence.mark_mine that forgets `self.count -= 1`.
Sentence_mark_mine_keeps_count(s, cell) ==
    IF cell \in s.cells
    THEN [cells |-> s.cells \ {cell}, count |-> s.count]
    ELSE s

\* Sentence.mark_mine
Sentence_mark_mine(s, cell) ==
    IF cell \in s.cells
    THEN [cells |-> s.cells \ {cell}, count |-> s.count - 1]
    ELSE s

\* Variant of Sentence.mark_safe that lowers the count as Sentence.mark_mine does.
Sentence_mark_safe_lowers_count(s, cell) ==
    IF cell \in s.cells
    THEN [cells |-> s.cells \ {cell}, count |-> s.count - 1]
    ELSE s

\* Sentence.mark_safe
Sentence_mark_safe(s, cell) ==
    IF cell \in s.cells
    THEN [cells |-> s.cells \ {cell}, count |-> s.count]
    ELSE s

---------------------------------------------------------------------------
\* MinesweeperAI helpers

\* Variant of the loop of MinesweeperAI.mark_mine that stops after the first sentence.
knowledge_mark_mine_first_only(kn, cell) ==
    [k \in DOMAIN kn |-> IF k = 1 THEN Sentence_mark_mine(kn[k], cell) ELSE kn[k]]

\* `for sentence in self.knowledge: sentence.mark_mine(cell)`
knowledge_mark_mine(kn, cell) ==
    [k \in DOMAIN kn |-> Sentence_mark_mine(kn[k], cell)]

\* `for sentence in self.knowledge: sentence.mark_safe(cell)`
knowledge_mark_safe(kn, cell) ==
    [k \in DOMAIN kn |-> Sentence_mark_safe(kn[k], cell)]

\* `x in list`, which compares with Sentence.__eq__ (same cells and same count).
InList(s, list) == \E k \in DOMAIN list : list[k] = s

\* Variant of step 3 that does not skip the neighbours already known safe.
neighbors_not_mines(cell, sf, mn) ==
    {n \in Neighbors(cell) : ~(n \in mn)}

\* The undetermined neighbours of add_knowledge step 3, with safes sf and mines mn.
undetermined_neighbors(cell, sf, mn) ==
    {n \in Neighbors(cell) : ~(n \in sf \/ n \in mn)}

\* Variant of step 3 that keeps the observed count as it is.
unadjusted_count(cell, count, mn) == count

\* Variant of step 3 that subtracts every known mine, neighbour or not.
adjusted_count_all_mines(cell, count, mn) == count - Cardinality(mn)

\* The count of add_knowledge step 3: one less for every neighbour in mines.
adjusted_count(cell, count, mn) ==
    count - Cardinality({n \in Neighbors(cell) : n \in mn})

\* The union of known_safes() over the knowledge base.
collect_safes(kn) == UNION {known_safes(kn[k]) : k \in DOMAIN kn}

\* The union of known_mines() over the knowledge base.
collect_mines(kn) == UNION {known_mines(kn[k]) : k \in DOMAIN kn}

\* Variant of the subset rule that keeps the count of sentence2.
subset_sentence_keeps_count(s1, s2) ==
    Sentence(s2.cells \ s1.cells, s2.count)

\* The sentence the subset rule builds from sentence1 and sentence2.
subset_sentence(s1, s2) ==
    Sentence(s2.cells \ s1.cells, s2.count - s1.count)

\* Variant of the subset test with the two sentences exchanged.
subset_applies_reversed(s1, s2) ==
    /\ ~(s1 = s2)
    /\ s1.cells # {}
    /\ s2.cells \subseteq s1.cells

\* Whether the pair (sentence1, sentence2) reaches the construction of a new sentence.
subset_applies(s1, s2) ==
    /\ ~(s1 = s2)
    /\ s1.cells # {}
    /\ s1.cells \subseteq s2.cells

\* Variant of the staging test without `new_sentence not in new_sentences`.
stage_ok_ignores_staged(ns, kn, acc) ==
    /\ ~InList(ns, kn)
    /\ Cardinality(ns.cells) > 0

\* Whether the new sentence ns is staged, given the sentences staged so far.
stage_ok(ns, kn, acc) ==
    /\ ~InList(ns, kn)
    /\ ~InList(ns, acc)
    /\ Cardinality(ns.cells) > 0

\* The double loop of step 5 from the pair (i, j) on, acc being new_sentences so far.
RECURSIVE infer_from(_, _, _, _)
infer_from(kn, i, j, acc) ==
    IF i > Len(kn) THEN acc
    ELSE IF j > Len(kn) THEN infer_from(kn, i + 1, 1, acc)
    ELSE IF subset_applies(kn[i], kn[j])
              /\ stage_ok(subset_sentence(kn[i], kn[j]), kn, acc)
         THEN infer_from(kn, i, j + 1, Append(acc, subset_sentence(kn[i], kn[j])))
         ELSE infer_from(kn, i, j + 1, acc)

\* new_sentences after the double loop of step 5.
infer_new_sentences(kn) == infer_from(kn, 1, 1, <<>>)

\* [s for s in self.knowledge if s.cells]
NonEmpty(s) == s.cells # {}
remove_empty(kn) == SelectSeq(kn, NonEmpty)

---------------------------------------------------------------------------
\* State after construction

InitAI ==
    /\ moves_made = {}
    /\ safes = {}
    /\ mines = {}
    /\ knowledge = <<>>
    /\ pc = "idle"
    /\ updated = FALSE
    /\ safes_to_add = {}
    /\ mines_to_add = {}
    /\ todo = {}
    /\ new_sentences = <<>>
    /\ op = "init"
    /\ arg = <<>>
    /\ ret = None
    /\ calls = 0
    /\ marks = 0

\* A game: a board of any size, any layout of at most MaxMines mines on it, and a
\* fresh agent for that board.
Init ==
    /\ height \in 1..MaxHeight
    /\ width \in 1..MaxWidth
    /\ height <= width
    /\ height * width <= MaxCells
    /\ board \in {b \in SUBSET Cells : Cardinality(b) <= MaxMines}
    /\ sentence = None
    /\ InitAI

locals == <<updated, safes_to_add, mines_to_add, todo, new_sentences>>

---------------------------------------------------------------------------
\* add_knowledge

\* Variant of lines 195-226 without step 2, `self.mark_safe(cell)`.
add_knowledge_forgets_mark_safe(cell, count) ==
    /\ pc = "idle"
    /\ moves_made' = moves_made \cup {cell}
    /\ safes' = safes
    /\ LET neighbors == undetermined_neighbors(cell, safes, mines)
       IN  knowledge' =
              IF Cardinality(neighbors) > 0
              THEN Append(knowledge, Sentence(neighbors, adjusted_count(cell, count, mines)))
              ELSE knowledge
    /\ updated' = TRUE
    /\ pc' = "loop"
    /\ op' = "add_knowledge"
    /\ arg' = <<cell, count>>
    /\ ret' = None
    /\ calls' = calls + 1
    /\ UNCHANGED <<sentence, height, width, board, mines, safes_to_add, mines_to_add, todo, new_sentences, marks>>

\* Lines 195-226: steps 1 to 3 and `updated = True`.
add_knowledge(cell, count) ==
    /\ pc = "idle"
    /\ moves_made' = moves_made \cup {cell}
    /\ safes' = safes \cup {cell}
    /\ LET kn == knowledge_mark_safe(knowledge, cell)
           neighbors == undetermined_neighbors(cell, safes', mines)
       IN  knowledge' =
              IF Cardinality(neighbors) > 0
              THEN Append(kn, Sentence(neighbors, adjusted_count(cell, count, mines)))
              ELSE kn
    /\ updated' = TRUE
    /\ pc' = "loop"
    /\ op' = "add_knowledge"
    /\ arg' = <<cell, count>>
    /\ ret' = None
    /\ calls' = calls + 1
    /\ UNCHANGED <<sentence, height, width, board, mines, safes_to_add, mines_to_add, todo, new_sentences, marks>>

\* Lines 227-239: the `while updated` test and, when it passes, the collection of
\* the known safes and mines of every sentence.
LoopTest ==
    /\ pc = "loop"
    /\ IF updated
       THEN /\ updated' = FALSE
            /\ safes_to_add' = collect_safes(knowledge)
            /\ mines_to_add' = collect_mines(knowledge)
            /\ todo' = collect_safes(knowledge)
            /\ pc' = "safes"
            /\ UNCHANGED new_sentences
       ELSE /\ pc' = "cleanup"
            /\ UNCHANGED locals
    /\ UNCHANGED <<sentence, height, width, board, moves_made, safes, mines, knowledge, op, arg, ret, calls, marks>>

\* Lines 242-246: one iteration of `for safe in safes_to_add`, in any order, or the
\* end of that loop. The sentences the pass before staged are the very objects
\* line 269 appended to self.knowledge, so the mark reaches new_sentences too.
MarkSafes ==
    /\ pc = "safes"
    /\ IF todo = {}
       THEN /\ pc' = "mines"
            /\ todo' = mines_to_add
            /\ UNCHANGED <<safes, knowledge, updated, new_sentences>>
       ELSE \E safe \in todo :
            /\ todo' = todo \ {safe}
            /\ pc' = pc
            /\ IF safe \notin safes
               THEN /\ safes' = safes \cup {safe}
                    /\ knowledge' = knowledge_mark_safe(knowledge, safe)
                    /\ new_sentences' = knowledge_mark_safe(new_sentences, safe)
                    /\ updated' = TRUE
               ELSE UNCHANGED <<safes, knowledge, updated, new_sentences>>
    /\ UNCHANGED <<sentence, height, width, board, moves_made, mines, safes_to_add, mines_to_add,
                   op, arg, ret, calls, marks>>

\* Variant of lines 249-253 without `updated = True`.
MarkMines_forgets_updated ==
    /\ pc = "mines"
    /\ IF todo = {}
       THEN /\ pc' = "infer"
            /\ UNCHANGED <<todo, mines, knowledge, new_sentences>>
       ELSE \E mine \in todo :
            /\ todo' = todo \ {mine}
            /\ pc' = pc
            /\ IF mine \notin mines
               THEN /\ mines' = mines \cup {mine}
                    /\ knowledge' = knowledge_mark_mine(knowledge, mine)
                    /\ new_sentences' = knowledge_mark_mine(new_sentences, mine)
               ELSE UNCHANGED <<mines, knowledge, new_sentences>>
    /\ UNCHANGED <<sentence, height, width, board, moves_made, safes, updated, safes_to_add,
                   mines_to_add, op, arg, ret, calls, marks>>

\* Variant of lines 249-253 with a `break` after the first new mine.
MarkMines_stops_after_first ==
    /\ pc = "mines"
    /\ IF todo = {}
       THEN /\ pc' = "infer"
            /\ UNCHANGED <<todo, mines, knowledge, updated, new_sentences>>
       ELSE \E mine \in todo :
            /\ pc' = pc
            /\ IF mine \notin mines
               THEN /\ mines' = mines \cup {mine}
                    /\ knowledge' = knowledge_mark_mine(knowledge, mine)
                    /\ new_sentences' = knowledge_mark_mine(new_sentences, mine)
                    /\ updated' = TRUE
                    /\ todo' = {}
               ELSE /\ todo' = todo \ {mine}
                    /\ UNCHANGED <<mines, knowledge, updated, new_sentences>>
    /\ UNCHANGED <<sentence, height, width, board, moves_made, safes, safes_to_add, mines_to_add,
                   op, arg, ret, calls, marks>>

\* Lines 249-253: one iteration of `for mine in mines_to_add`, in any order, or the
\* end of that loop. As in the loop over the safes, the mark reaches the sentences
\* of new_sentences, which are objects of self.knowledge since line 269.
MarkMines ==
    /\ pc = "mines"
    /\ IF todo = {}
       THEN /\ pc' = "infer"
            /\ UNCHANGED <<todo, mines, knowledge, updated, new_sentences>>
       ELSE \E mine \in todo :
            /\ todo' = todo \ {mine}
            /\ pc' = pc
            /\ IF mine \notin mines
               THEN /\ mines' = mines \cup {mine}
                    /\ knowledge' = knowledge_mark_mine(knowledge, mine)
                    /\ new_sentences' = knowledge_mark_mine(new_sentences, mine)
                    /\ updated' = TRUE
               ELSE UNCHANGED <<mines, knowledge, updated, new_sentences>>
    /\ UNCHANGED <<sentence, height, width, board, moves_made, safes, safes_to_add, mines_to_add,
                   op, arg, ret, calls, marks>>

\* Variant of lines 256-267 that also takes sentence1 out of sentence2 in place
\* (`sentence2.cells -= sentence1.cells; sentence2.count -= sentence1.count`).
Infer_in_place ==
    /\ pc = "infer"
    /\ new_sentences' = infer_new_sentences(knowledge)
    /\ knowledge' =
          [k \in DOMAIN knowledge |->
              IF \E i \in DOMAIN knowledge : subset_applies(knowledge[i], knowledge[k])
              THEN subset_sentence(
                       knowledge[CHOOSE i \in DOMAIN knowledge :
                                     subset_applies(knowledge[i], knowledge[k])],
                       knowledge[k])
              ELSE knowledge[k]]
    /\ pc' = "extend"
    /\ UNCHANGED <<sentence, height, width, board, moves_made, safes, mines, updated, safes_to_add,
                   mines_to_add, todo, op, arg, ret, calls, marks>>

\* Lines 256-267: the double loop that stages the sentences of the subset rule.
Infer ==
    /\ pc = "infer"
    /\ new_sentences' = infer_new_sentences(knowledge)
    /\ pc' = "extend"
    /\ UNCHANGED <<sentence, height, width, board, moves_made, safes, mines, knowledge, updated, safes_to_add,
                   mines_to_add, todo, op, arg, ret, calls, marks>>

\* Variant of lines 268-270 with `updated = True` outside the `if`.
Extend_always_updated ==
    /\ pc = "extend"
    /\ IF Len(new_sentences) > 0
       THEN knowledge' = knowledge \o new_sentences
       ELSE UNCHANGED knowledge
    /\ updated' = TRUE
    /\ pc' = "loop"
    /\ UNCHANGED <<sentence, height, width, board, moves_made, safes, mines, safes_to_add, mines_to_add, todo,
                   new_sentences, op, arg, ret, calls, marks>>

\* Variant of lines 268-270 without `updated = True`.
Extend_never_updated ==
    /\ pc = "extend"
    /\ IF Len(new_sentences) > 0
       THEN knowledge' = knowledge \o new_sentences
       ELSE UNCHANGED knowledge
    /\ pc' = "loop"
    /\ UNCHANGED <<sentence, height, width, board, moves_made, safes, mines, updated, safes_to_add,
                   mines_to_add, todo, new_sentences, op, arg, ret, calls, marks>>

\* Lines 268-270: the staged sentences join the knowledge base.
Extend ==
    /\ pc = "extend"
    /\ IF Len(new_sentences) > 0
       THEN /\ knowledge' = knowledge \o new_sentences
            /\ updated' = TRUE
       ELSE UNCHANGED <<knowledge, updated>>
    /\ pc' = "loop"
    /\ UNCHANGED <<sentence, height, width, board, moves_made, safes, mines, safes_to_add, mines_to_add, todo,
                   new_sentences, op, arg, ret, calls, marks>>

\* Variant of the return without the clean-up of line 273.
Cleanup_keeps_empty ==
    /\ pc = "cleanup"
    /\ knowledge' = knowledge
    /\ pc' = "idle"
    /\ updated' = FALSE
    /\ safes_to_add' = {}
    /\ mines_to_add' = {}
    /\ todo' = {}
    /\ new_sentences' = <<>>
    /\ UNCHANGED <<sentence, height, width, board, moves_made, safes, mines, op, arg, ret, calls, marks>>

\* Line 273 and the return: empty sentences are dropped, the locals die.
Cleanup ==
    /\ pc = "cleanup"
    /\ knowledge' = remove_empty(knowledge)
    /\ pc' = "idle"
    /\ updated' = FALSE
    /\ safes_to_add' = {}
    /\ mines_to_add' = {}
    /\ todo' = {}
    /\ new_sentences' = <<>>
    /\ UNCHANGED <<sentence, height, width, board, moves_made, safes, mines, op, arg, ret, calls, marks>>

\* The steps of a running add_knowledge call.
ClosureStep == LoopTest \/ MarkSafes \/ MarkMines \/ Infer \/ Extend \/ Cleanup

---------------------------------------------------------------------------
\* The other calls on the agent

\* MinesweeperAI.mark_mine, called by the driver.
mark_mine(cell) ==
    /\ pc = "idle"
    /\ marks < MaxMarks
    /\ mines' = mines \cup {cell}
    /\ knowledge' = knowledge_mark_mine(knowledge, cell)
    /\ op' = "mark_mine"
    /\ arg' = <<cell>>
    /\ ret' = None
    /\ marks' = marks + 1
    /\ UNCHANGED <<sentence, height, width, board, moves_made, safes, pc, locals, calls>>

\* Variant of MinesweeperAI.mark_safe that moves the cell out of mines.
mark_safe_moves_cell(cell) ==
    /\ pc = "idle"
    /\ marks < MaxMarks
    /\ safes' = safes \cup {cell}
    /\ mines' = mines \ {cell}
    /\ knowledge' = knowledge_mark_safe(knowledge, cell)
    /\ op' = "mark_safe"
    /\ arg' = <<cell>>
    /\ ret' = None
    /\ marks' = marks + 1
    /\ UNCHANGED <<sentence, height, width, board, moves_made, pc, locals, calls>>

\* MinesweeperAI.mark_safe, called by the driver.
mark_safe(cell) ==
    /\ pc = "idle"
    /\ marks < MaxMarks
    /\ safes' = safes \cup {cell}
    /\ knowledge' = knowledge_mark_safe(knowledge, cell)
    /\ op' = "mark_safe"
    /\ arg' = <<cell>>
    /\ ret' = None
    /\ marks' = marks + 1
    /\ UNCHANGED <<sentence, height, width, board, moves_made, mines, pc, locals, calls>>

\* Variant of MinesweeperAI.make_safe_move without the `not in self.moves_made` test.
make_safe_move_any_safe ==
    /\ pc = "idle"
    /\ op' = "make_safe_move"
    /\ arg' = <<>>
    /\ \/ \E cell \in safes : ret' = cell
       \/ safes = {} /\ ret' = None
    /\ UNCHANGED <<sentence, height, width, board, moves_made, safes, mines, knowledge, pc, locals, calls, marks>>

\* MinesweeperAI.make_safe_move: the first cell of safes, in the set's iteration
\* order, that is not in moves_made; None when there is none.
make_safe_move ==
    /\ pc = "idle"
    /\ op' = "make_safe_move"
    /\ arg' = <<>>
    /\ \/ \E cell \in safes : cell \notin moves_made /\ ret' = cell
       \/ (\A cell \in safes : cell \in moves_made) /\ ret' = None
    /\ UNCHANGED <<sentence, height, width, board, moves_made, safes, mines, knowledge, pc, locals, calls, marks>>

\* Variant of MinesweeperAI.make_random_move that does not subtract self.mines.
make_random_move_keeps_mines ==
    /\ pc = "idle"
    /\ op' = "make_random_move"
    /\ arg' = <<>>
    /\ LET choices == Cells \ moves_made
       IN  IF choices # {}
           THEN \E cell \in choices : ret' = cell
           ELSE ret' = None
    /\ UNCHANGED <<sentence, height, width, board, moves_made, safes, mines, knowledge, pc, locals, calls, marks>>

\* Variant of MinesweeperAI.make_random_move that does not subtract self.moves_made.
make_random_move_keeps_moves ==
    /\ pc = "idle"
    /\ op' = "make_random_move"
    /\ arg' = <<>>
    /\ LET choices == Cells \ mines
       IN  IF choices # {}
           THEN \E cell \in choices : ret' = cell
           ELSE ret' = None
    /\ UNCHANGED <<sentence, height, width, board, moves_made, safes, mines, knowledge, pc, locals, calls, marks>>

\* MinesweeperAI.make_random_move: random.choice over all_moves - moves_made - mines.
make_random_move ==
    /\ pc = "idle"
    /\ op' = "make_random_move"
    /\ arg' = <<>>
    /\ LET choices == (Cells \ moves_made) \ mines
       IN  IF choices # {}
           THEN \E cell \in choices : ret' = cell
           ELSE ret' = None
    /\ UNCHANGED <<sentence, height, width, board, moves_made, safes, mines, knowledge, pc, locals, calls, marks>>

---------------------------------------------------------------------------
\* The calls on a Sentence object of its own

\* sentence.known_mines()
Sentence_known_mines_call ==
    /\ op' = "Sentence.known_mines"
    /\ arg' = <<>>
    /\ ret' = known_mines(sentence)
    /\ UNCHANGED <<sentence, height, width, board, moves_made, safes, mines, knowledge, pc, locals, calls, marks>>

\* sentence.known_safes()
Sentence_known_safes_call ==
    /\ op' = "Sentence.known_safes"
    /\ arg' = <<>>
    /\ ret' = known_safes(sentence)
    /\ UNCHANGED <<sentence, height, width, board, moves_made, safes, mines, knowledge, pc, locals, calls, marks>>

\* sentence.mark_mine(cell)
Sentence_mark_mine_call(cell) ==
    /\ sentence' = Sentence_mark_mine(sentence, cell)
    /\ op' = "Sentence.mark_mine"
    /\ arg' = <<cell>>
    /\ ret' = None
    /\ UNCHANGED <<height, width, board, moves_made, safes, mines, knowledge, pc, locals, calls, marks>>

\* sentence.mark_safe(cell)
Sentence_mark_safe_call(cell) ==
    /\ sentence' = Sentence_mark_safe(sentence, cell)
    /\ op' = "Sentence.mark_safe"
    /\ arg' = <<cell>>
    /\ ret' = None
    /\ UNCHANGED <<height, width, board, moves_made, safes, mines, knowledge, pc, locals, calls, marks>>

---------------------------------------------------------------------------
\* Specifications

\* The oracle reveals a cell that holds no mine, with its true count.
Observe ==
    \E cell \in Cells :
        /\ calls < MaxCalls
        /\ ~is_mine(board, cell)
        /\ add_knowledge(cell, nearby_mines(board, cell))

\* The game: observations consistent with the layout `board`.
Next == Observe \/ ClosureStep

Spec == Init /\ [][Next]_vars

\* A running call runs on: the code is single-threaded and synchronous.
FairSpec == Spec /\ WF_vars(ClosureStep)

\* Any caller: every public method with any cell of the board and any count.
AnyCall ==
    \/ \E cell \in Cells, count \in 0..MaxCount :
            calls < MaxAnyCalls /\ add_knowledge(cell, count)
    \/ \E cell \in Cells : mark_safe(cell)
    \/ \E cell \in Cells : mark_mine(cell)
    \/ make_safe_move
    \/ make_random_move

InitAny ==
    /\ height \in 1..MaxHeight
    /\ width \in 1..MaxWidth
    /\ height <= width
    /\ height * width <= MaxCells
    /\ board = {}
    /\ sentence = None
    /\ InitAI

\* Inconsistent counts can make the closure loop add sentences for ever; the
\* unconstrained specification follows a call only while the list is short.
BoundedClosureStep == ClosureStep /\ Len(knowledge') <= MaxSentences

NextAny == AnyCall \/ BoundedClosureStep

SpecAny == InitAny /\ [][NextAny]_vars

\* A running call runs on, as long as the specification follows it.
FairSpecAny == SpecAny /\ WF_vars(BoundedClosureStep)

\* The cells a careless caller passes: the board and the ring of cells around it.
ArgCells == {<<i, j>> : i \in (-1)..height, j \in (-1)..width}

\* add_knowledge with any cell, on the board or off it, played before or not.
AnyCellCall ==
    \E cell \in ArgCells, count \in 0..MaxCount :
        calls < MaxAnyCalls /\ add_knowledge(cell, count)

NextAnyCell == AnyCellCall \/ BoundedClosureStep

SpecAnyCell == InitAny /\ [][NextAnyCell]_vars

\* A Sentence object over the cells of a board, with any count from -1 to one
\* more than the number of cells of the board.
InitSentence ==
    /\ height \in 1..MaxHeight
    /\ width \in 1..MaxWidth
    /\ height <= width
    /\ height * width <= MaxCells
    /\ board = {}
    /\ sentence \in {Sentence(cells, count) :
                         cells \in SUBSET Cells, count \in (-1)..(Cardinality(Cells) + 1)}
    /\ InitAI

NextSentence ==
    \/ Sentence_known_mines_call
    \/ Sentence_known_safes_call
    \/ \E cell \in Cells : Sentence_mark_mine_call(cell)
    \/ \E cell \in Cells : Sentence_mark_safe_call(cell)

SpecSentence == InitSentence /\ [][NextSentence]_vars

\* A caller that also tells the agent the truth about a cell with a direct mark.
Hint ==
    \E cell \in Cells :
        \/ ~is_mine(board, cell) /\ mark_safe(cell)
        \/ is_mine(board, cell) /\ mark_mine(cell)

\* The game with consistent observations and true direct marks.
NextHints == Observe \/ Hint \/ ClosureStep

SpecHints == Init /\ [][NextHints]_vars

\* The play loop: each turn the driver asks for a safe move, for a random move
\* when there is none, stops when there is none either, and otherwise reveals
\* the cell: the game ends on a mine, and a cell without a mine goes to
\* add_knowledge with its count of nearby mines.
PlaySafeMove ==
    /\ op \in {"init", "add_knowledge"}
    /\ make_safe_move

PlayRandomMove ==
    /\ op = "make_safe_move"
    /\ ret = None
    /\ make_random_move

\* Minesweeper.is_mine on the chosen cell.
PlayIsMine ==
    /\ pc = "idle"
    /\ op \in {"make_safe_move", "make_random_move"}
    /\ ret # None
    /\ op' = "is_mine"
    /\ arg' = <<ret>>
    /\ ret' = <<is_mine(board, ret)>>
    /\ UNCHANGED <<sentence, height, width, board, moves_made, safes, mines, knowledge, pc, locals, calls, marks>>

PlayAddKnowledge ==
    /\ op = "is_mine"
    /\ ret = <<FALSE>>
    /\ add_knowledge(arg[1], nearby_mines(board, arg[1]))

NextPlay == PlaySafeMove \/ PlayRandomMove \/ PlayIsMine \/ PlayAddKnowledge \/ ClosureStep

SpecPlay == Init /\ [][NextPlay]_vars

\* The driver and the calls it makes run on: nothing else is scheduled.
FairSpecPlay == SpecPlay /\ WF_vars(NextPlay)

---------------------------------------------------------------------------
\* Properties

\* A sentence s agrees with the layout: its count is the number of mines among its cells.
TrueOf(s) == s.count = Cardinality({c \in s.cells : is_mine(board, c)})

\* C1: with observations consistent with the layout, after every add_knowledge
\* call no cell of safes holds a mine, every cell of mines holds one, and every
\* sentence of knowledge has the true count of its cells.
C1_Soundness ==
    pc = "idle" =>
        /\ \A c \in safes : ~is_mine(board, c)
        /\ \A c \in mines : is_mine(board, c)
        /\ \A k \in DOMAIN knowledge : TrueOf(knowledge[k])

C1_Witness ==
    /\ pc = "idle"
    /\ op = "add_knowledge"
    /\ calls >= 2
    /\ mines # {}
    /\ Len(knowledge) > 0

\* C2: after any sequence of add_knowledge calls, whatever the cells and counts,
\* safes and mines have no cell in common.
C2_Disjoint == marks = 0 => safes \cap mines = {}

\* C3: no call and no step of a call removes a cell from safes, from mines or
\* from moves_made.
C3_Monotone ==
    [][/\ safes \subseteq safes'
       /\ mines \subseteq mines'
       /\ moves_made \subseteq moves_made']_vars

C3_Witness ==
    /\ pc = "idle"
    /\ op = "make_random_move"
    /\ marks > 0
    /\ safes \ moves_made # {}
    /\ mines # {}
    /\ moves_made # {}

\* 0 <= count <= |cells|
InRange(s) == 0 <= s.count /\ s.count <= Cardinality(s.cells)

\* C4: with consistent observations every sentence satisfies 0 <= count <= |cells|
\* in every state of a call: between two mark applications, for the staged
\* sentences, and for every sentence the subset rule has just built.
C4_SentenceInvariant ==
    /\ \A k \in DOMAIN knowledge : InRange(knowledge[k])
    /\ pc = "extend" =>
        /\ \A k \in DOMAIN new_sentences : InRange(new_sentences[k])
        /\ \A i, j \in DOMAIN knowledge :
              subset_applies(knowledge[i], knowledge[j])
                  => InRange(subset_sentence(knowledge[i], knowledge[j]))

C4_Witness ==
    /\ pc = "extend"
    /\ Len(new_sentences) > 0
    /\ mines # {}

\* C5: with consistent observations every add_knowledge call reaches the loop
\* test with updated false, that is, it has run a full pass that marked nothing
\* and added no sentence.
C5_Terminates == (pc = "loop" /\ updated) ~> (pc = "loop" /\ ~updated)

C5_Witness ==
    /\ pc = "loop"
    /\ ~updated
    /\ calls >= 2
    /\ mines # {}
    /\ Len(knowledge) >= 2

\* C6: in the state in which add_knowledge returns, one more closure pass marks
\* no cell and stages no sentence.
C6_ClosureIdempotent ==
    (pc = "idle" /\ op = "add_knowledge") =>
        /\ collect_safes(knowledge) \ safes = {}
        /\ collect_mines(knowledge) \ mines = {}
        /\ infer_new_sentences(knowledge) = <<>>

C6_Witness ==
    /\ pc = "idle"
    /\ op = "add_knowledge"
    /\ Len(knowledge) >= 3
    /\ mines # {}

\* The cells of the largest board.
AllCells == {<<i, j>> : i \in 0..(MaxHeight - 1), j \in 0..(MaxWidth - 1)}

\* The sets {a, b} of two distinct cells.
Pairs == {x \in SUBSET AllCells : Cardinality(x) = 2}

\* A proper, non-empty subset.
ProperSubset(x, y) == x # {} /\ x \subseteq y /\ x # y

\* The knowledge base holds {a,b} = 1 and {a,b,c} = 2 for some cells a, b.
HasMinePattern(c) ==
    \E x \in Pairs :
        /\ c \notin x
        /\ InList(Sentence(x, 1), knowledge)
        /\ InList(Sentence(x \cup {c}, 2), knowledge)

\* C7: after the double loop of a closure pass, for any sentences A and B of the
\* knowledge base with A.cells a non-empty proper subset of B.cells, the sentence
\* (B.cells - A.cells, B.count - A.count) is in the knowledge base or staged; and
\* with consistent observations a closure that starts a pass with {a,b} = 1 and
\* {a,b,c} = 2 in the knowledge base ends with c in mines.
C7_SubsetRule ==
    /\ [](pc = "extend" =>
            \A i, j \in DOMAIN knowledge :
                ProperSubset(knowledge[i].cells, knowledge[j].cells)
                    => InList([cells |-> knowledge[j].cells \ knowledge[i].cells,
                               count |-> knowledge[j].count - knowledge[i].count],
                              knowledge \o new_sentences))
    /\ \A c \in AllCells :
          (pc = "loop" /\ updated /\ HasMinePattern(c))
              ~> (pc = "cleanup" /\ c \in mines)

C7_Witness ==
    /\ pc = "extend"
    /\ \E c \in Cells : HasMinePattern(c) /\ InList(Sentence({c}, 1), new_sentences)

\* The knowledge base is made of {a,b,c} = 1 and {a,b} = 1, x being {a, b}.
IsSafePattern(x, c) ==
    /\ c \notin x
    /\ knowledge \in {<<Sentence(x \cup {c}, 1), Sentence(x, 1)>>,
                      <<Sentence(x, 1), Sentence(x \cup {c}, 1)>>}

\* C8: a closure that starts on the knowledge base made of {a,b,c} = 1 and
\* {a,b} = 1 stages {c} = 0 in its first pass and ends with c in safes and not in
\* mines, a and b being in neither set.
C8_SubsetRuleSafe ==
    \A c \in AllCells :
        /\ []((pc = "extend" /\ \E x \in Pairs : IsSafePattern(x, c))
                  => new_sentences = <<Sentence({c}, 0)>>)
        /\ (pc = "loop" /\ updated /\ \E x \in Pairs : IsSafePattern(x, c))
              ~> (pc = "cleanup" /\ c \in safes /\ c \notin mines)
        /\ (pc = "loop" /\ updated
              /\ \E x \in Pairs, d \in AllCells : c \in x /\ IsSafePattern(x, d))
              ~> (pc = "cleanup" /\ c \notin safes /\ c \notin mines)

C8_Witness ==
    \E x \in Pairs, c \in Cells :
        /\ c \notin x
        /\ pc = "cleanup"
        /\ knowledge = <<Sentence(x, 1), Sentence(x, 1), Sentence({}, 0)>>
        /\ c \in safes
        /\ c \notin mines
        /\ x \cap (safes \cup mines) = {}

\* C9: with consistent observations, a cell that is in known_mines() of some
\* sentence at any point of an add_knowledge call is in mines when the call
\* returns, and is in safes at no time.
C9_KnownMinesRecorded ==
    \A c \in AllCells :
        /\ (pc # "idle" /\ c \in collect_mines(knowledge)) ~> (pc = "idle" /\ c \in mines)
        /\ []((pc # "idle" /\ c \in collect_mines(knowledge)) => [](c \notin safes))

C9_Witness ==
    /\ pc = "idle"
    /\ op = "add_knowledge"
    /\ Cardinality(mines) >= 2

\* C10: on the 1x3 board with its only mine at (0,2), after add_knowledge((0,0), 0)
\* the cell (0,1) is in safes, and once (0,1) has been observed too the cell (0,2)
\* is in mines.
C10_Scenario1 ==
    (height = 1 /\ width = 3 /\ board = {<<0, 2>>} /\ pc = "idle") =>
        /\ moves_made = {<<0, 0>>} => <<0, 1>> \in safes
        /\ moves_made = {<<0, 0>>, <<0, 1>>} => <<0, 2>> \in mines

C10_Witness ==
    /\ height = 1 /\ width = 3 /\ board = {<<0, 2>>}
    /\ pc = "idle"
    /\ calls = 2
    /\ moves_made = {<<0, 0>>, <<0, 1>>}
    /\ <<0, 2>> \in mines

\* The fields of the agent.
fields == <<height, width, moves_made, safes, mines, knowledge>>

\* C11: make_random_move returns an in-bounds cell that is neither in moves_made
\* nor in mines, or None exactly when there is no such cell; between calls every
\* such cell is a value the call can return; and the call changes no field.
C11_RandomMove ==
    /\ [](op = "make_random_move" =>
             IF \E c \in Cells : c \notin moves_made /\ c \notin mines
             THEN ret \in Cells /\ ret \notin moves_made /\ ret \notin mines
             ELSE ret = None)
    /\ [](pc = "idle" =>
             \A c \in Cells : (c \notin moves_made /\ c \notin mines)
                 => ENABLED (make_random_move /\ ret' = c))
    /\ [][op' = "make_random_move" => UNCHANGED fields]_vars

C11_Witness ==
    /\ op = "make_random_move"
    /\ ret # None
    /\ ret \in Cells
    /\ mines # {}
    /\ moves_made # {}
    /\ safes \ moves_made # {}

\* C12: make_safe_move returns a cell of safes that is not in moves_made whenever
\* there is one, and None exactly when safes is a subset of moves_made; the call
\* changes no field.
C12_SafeMove ==
    /\ [](op = "make_safe_move" =>
             IF safes \subseteq moves_made
             THEN ret = None
             ELSE ret \in safes /\ ret \notin moves_made)
    /\ [][op' = "make_safe_move" => UNCHANGED fields]_vars

C12_Witness ==
    /\ op = "make_safe_move"
    /\ ret # None
    /\ ret \in safes
    /\ moves_made # {}
    /\ Cardinality(safes \ moves_made) >= 2

\* C13: a mark_mine(cell) call with cell in safes, and a mark_safe(cell) call with
\* cell in mines, reports the contradiction to its caller (it does not return
\* None as a call that went well does).
C13_ContradictionSurfaced ==
    /\ (op = "mark_mine" /\ arg[1] \in safes) => ret # None
    /\ (op = "mark_safe" /\ arg[1] \in mines) => ret # None

\* The in-bounds cells around cell, written out from the coordinates.
Around(cell) ==
    {n \in Cells : n # cell /\ n[1] - cell[1] \in {-1, 0, 1} /\ n[2] - cell[2] \in {-1, 0, 1}}

\* C14: an add_knowledge(cell, count) call whose count, less the neighbours in
\* mines, is negative or larger than the number of undetermined neighbours
\* reports the inconsistency to its caller and appends no sentence.
C14_InconsistentCountFatal ==
    [][(op' = "add_knowledge" /\ calls' = calls + 1) =>
          LET cell == arg'[1]
              adj == arg'[2] - Cardinality(Around(cell) \cap mines)
              und == Around(cell) \ (safes \cup {cell} \cup mines)
          IN  (adj < 0 \/ adj > Cardinality(und))
                  => (ret' # None /\ Len(knowledge') = Len(knowledge))]_vars

\* C15: an add_knowledge call with a cell already in moves_made, or with a cell
\* off the board, is rejected (it does not return None as a call that went well
\* does) and leaves moves_made, safes, mines and knowledge as they were.
C15_InvalidMoveRejected ==
    [][(op' = "add_knowledge" /\ calls' = calls + 1
            /\ (arg'[1] \in moves_made \/ arg'[1] \notin Cells))
          => (ret' # None /\ UNCHANGED <<moves_made, safes, mines, knowledge>>)]_vars

\* C16: known_mines returns the sentence's cells when count equals the number of
\* cells and is not 0, and the empty set otherwise, also for the sentence with
\* no cells and count 0; the call leaves the sentence as it was.
C16_KnownMines ==
    /\ [](op = "Sentence.known_mines" =>
             /\ (sentence.count = Cardinality(sentence.cells) /\ sentence.count # 0)
                    => ret = sentence.cells
             /\ (sentence.count # Cardinality(sentence.cells) \/ sentence.count = 0)
                    => ret = {}
             /\ (sentence.cells = {} /\ sentence.count = 0) => ret = {})
    /\ [][op' = "Sentence.known_mines" => sentence' = sentence]_vars

C16_Witness ==
    /\ op = "Sentence.known_mines"
    /\ Cardinality(ret) >= 2
    /\ ret = sentence.cells

\* C17: known_safes returns the sentence's cells when count is 0 and the empty
\* set when count is not 0; the call leaves the sentence as it was; and no
\* sentence has both known_safes() and known_mines() non-empty.
C17_KnownSafes ==
    /\ [](op = "Sentence.known_safes" =>
             /\ sentence.count = 0 => ret = sentence.cells
             /\ sentence.count # 0 => ret = {})
    /\ [](known_safes(sentence) = {} \/ known_mines(sentence) = {})
    /\ [][op' = "Sentence.known_safes" => sentence' = sentence]_vars

C17_Witness ==
    /\ op = "Sentence.known_safes"
    /\ Cardinality(ret) >= 2
    /\ ret = sentence.cells

\* C18: Sentence.mark_mine(cell) and Sentence.mark_safe(cell) leave the sentence
\* as it was when cell is not among its cells; otherwise both remove that cell
\* and no other, mark_mine lowers count by 1 and mark_safe leaves count alone.
C18_SentenceDiscard ==
    [][(op' \in {"Sentence.mark_mine", "Sentence.mark_safe"}) =>
          IF arg'[1] \notin sentence.cells
          THEN sentence' = sentence
          ELSE /\ DOMAIN sentence' = {"cells", "count"}
               /\ sentence'.cells = sentence.cells \ {arg'[1]}
               /\ op' = "Sentence.mark_mine" => sentence'.count = sentence.count - 1
               /\ op' = "Sentence.mark_safe" => sentence'.count = sentence.count]_vars

C18_Witness ==
    /\ op = "Sentence.mark_safe"
    /\ arg[1] \notin sentence.cells
    /\ sentence.cells # {}
    /\ sentence.count < -1

\* C19: add_knowledge(cell, count) records cell in moves_made and safes and appends
\* at most one sentence: the in-bounds neighbours of cell that are in neither
\* safes nor mines, with count less the number of in-bounds neighbours in mines;
\* it appends that sentence exactly when it has a cell.
C19_ObservationIngestion ==
    [][(op' = "add_knowledge" /\ calls' = calls + 1) =>
          LET cell == arg'[1]
              und == {n \in Around(cell) : n \notin safes \cup {cell} /\ n \notin mines}
              adj == arg'[2] - Cardinality({n \in Around(cell) : n \in mines})
          IN  /\ moves_made' = moves_made \cup {cell}
              /\ safes' = safes \cup {cell}
              /\ mines' = mines
              /\ IF und = {}
                 THEN Len(knowledge') = Len(knowledge)
                 ELSE /\ Len(knowledge') = Len(knowledge) + 1
                      /\ knowledge'[Len(knowledge')] = [cells |-> und, count |-> adj]]_vars

C19_Witness ==
    /\ pc = "loop"
    /\ updated
    /\ op = "add_knowledge"
    /\ Len(knowledge) >= 2
    /\ Around(arg[1]) \cap mines # {}
    /\ Around(arg[1]) \cap (safes \ {arg[1]}) # {}
    /\ knowledge[Len(knowledge)] =
          [cells |-> Around(arg[1]) \ (safes \cup mines),
           count |-> arg[2] - Cardinality(Around(arg[1]) \cap mines)]
    /\ knowledge[Len(knowledge)].cells # {}

\* C20: the sentences already in knowledge keep their cells and count in every
\* step but the mark applications: the loop test, the double loop and the
\* extension leave each of them as it is, the clean-up only drops sentences, and
\* the first step of add_knowledge changes them by mark_safe(cell) alone, the
\* observed sentence being added behind them.
C20_OnlyMarksMutate ==
    [][/\ (op' = "add_knowledge" /\ calls' = calls + 1) =>
             \A k \in DOMAIN knowledge :
                 /\ k \in DOMAIN knowledge'
                 /\ knowledge'[k] = [cells |-> knowledge[k].cells \ {arg'[1]},
                                     count |-> knowledge[k].count]
       /\ pc \in {"loop", "infer", "extend"} =>
             \A k \in DOMAIN knowledge :
                 k \in DOMAIN knowledge' /\ knowledge'[k] = knowledge[k]
       /\ pc = "cleanup" =>
             \A k \in DOMAIN knowledge' : InList(knowledge'[k], knowledge)]_vars

C20_Witness ==
    /\ pc = "loop"
    /\ updated
    /\ Len(new_sentences) > 0
    /\ Len(knowledge) >= Len(new_sentences) + 2
    /\ mines # {}

\* C21: when the staged sentences are about to join the knowledge base, each of
\* them has a cell, equals no sentence of the knowledge base and no other staged
\* sentence, and is the difference of two sentences of the knowledge base (none
\* comes from a sentence staged in the same pass).
C21_StagingDiscipline ==
    pc = "extend" =>
        /\ \A k \in DOMAIN new_sentences :
              /\ new_sentences[k].cells # {}
              /\ \A j \in DOMAIN knowledge :
                    ~(/\ knowledge[j].cells = new_sentences[k].cells
                      /\ knowledge[j].count = new_sentences[k].count)
              /\ \E i, j \in DOMAIN knowledge :
                    /\ knowledge[i].cells # {}
                    /\ knowledge[i].cells \subseteq knowledge[j].cells
                    /\ new_sentences[k].cells = knowledge[j].cells \ knowledge[i].cells
                    /\ new_sentences[k].count = knowledge[j].count - knowledge[i].count
        /\ \A k1, k2 \in DOMAIN new_sentences :
              k1 # k2 => new_sentences[k1] # new_sentences[k2]

C21_Witness ==
    /\ pc = "extend"
    /\ Len(new_sentences) >= 2
    /\ Len(knowledge) >= 3

\* The cells the two mark loops of the running pass have still to mark: the pending
\* safe cells that are not in safes, and the pending mines that are not in mines.
PendingSafes == IF pc = "safes" THEN todo \ safes ELSE {}
PendingMines ==
    (IF pc = "safes" THEN mines_to_add ELSE IF pc = "mines" THEN todo ELSE {}) \ mines

\* safes, mines, knowledge and updated as the two mark loops leave them, computed
\* from the current state with sets, no order involved: the pending safe cells
\* leave every sentence, then the pending mines leave every sentence, each one
\* found in a sentence taking 1 off its count.
MarksOutcome ==
    <<safes \cup PendingSafes,
      mines \cup PendingMines,
      [k \in DOMAIN knowledge |->
          [cells |-> (knowledge[k].cells \ PendingSafes) \ PendingMines,
           count |-> knowledge[k].count
                       - Cardinality((knowledge[k].cells \ PendingSafes) \cap PendingMines)]],
      updated \/ PendingSafes # {} \/ PendingMines # {}>>

\* C22: whichever pending cell a mark loop takes next, the state the two loops
\* end in is the same; the other steps of a call offer no choice, so the state in
\* which add_knowledge returns depends on the state before the call and on
\* (cell, count) only.
C22_Deterministic ==
    [][(pc = "safes" \/ pc = "mines") => (MarksOutcome' = MarksOutcome)]_vars

C22_Witness ==
    /\ pc = "mines"
    /\ Cardinality(todo \ mines) >= 2
    /\ \E k \in DOMAIN knowledge : Cardinality(knowledge[k].cells \cap todo) >= 2
    /\ Len(knowledge) >= 2

\* C23: every cell of moves_made is in safes; make_safe_move returns no cell of
\* moves_made; and no sentence, in the knowledge base or staged, holds a cell of
\* moves_made.
C23_RevealedAreSafe ==
    /\ moves_made \subseteq safes
    /\ op = "make_safe_move" => (ret = None \/ ret \notin moves_made)
    /\ \A k \in DOMAIN knowledge : knowledge[k].cells \cap moves_made = {}
    /\ pc = "extend" =>
          \A k \in DOMAIN new_sentences : new_sentences[k].cells \cap moves_made = {}

C23_Witness ==
    /\ pc = "idle"
    /\ op = "make_safe_move"
    /\ ret # None
    /\ Cardinality(moves_made) >= 2
    /\ Len(knowledge) >= 1
    /\ \E k \in DOMAIN knowledge, c \in moves_made :
           Around(c) \cap knowledge[k].cells # {}

\* Both move functions have returned None in this turn.
Stuck == pc = "idle" /\ op = "make_random_move" /\ ret = None

\* The cell the driver revealed holds a mine.
MineHit == op = "is_mine" /\ ret = <<TRUE>>

\* C24: in the play loop the cell passed to add_knowledge is never in moves_made
\* and moves_made grows by one cell per turn; there are at most height x width
\* such turns, after that many neither move function has a cell to return, and
\* every game reaches a mine hit or the turn in which both return None; a cell
\* returned by make_safe_move holds no mine.
C24_PlayLoopProgress ==
    /\ [][(op' = "add_knowledge" /\ calls' = calls + 1) =>
             /\ arg'[1] \notin moves_made
             /\ Cardinality(moves_made') = Cardinality(moves_made) + 1]_vars
    /\ [](calls <= height * width)
    /\ []((pc = "idle" /\ calls = height * width) =>
             /\ safes \subseteq moves_made
             /\ \A c \in Cells : c \in moves_made \/ c \in mines)
    /\ [](op = "make_safe_move" => (ret = None \/ ~is_mine(board, ret)))
    /\ <>(Stuck \/ MineHit)

C24_Witness ==
    /\ Stuck
    /\ calls >= 3
    /\ mines # {}
    /\ Cardinality(moves_made) = calls

\* C25: when a mark_safe, mark_mine or add_knowledge call has returned, and at the
\* end of every closure pass, no sentence of the knowledge base, the sentences
\* the pass derived included, holds a cell of safes or of mines.
C25_KnownCellsPurged ==
    (pc = "idle" \/ pc = "loop") =>
        \A k \in DOMAIN knowledge :
            \A c \in knowledge[k].cells : c \notin safes /\ c \notin mines

C25_Witness ==
    /\ pc = "loop"
    /\ updated
    /\ marks > 0
    /\ mines # {}
    /\ Len(new_sentences) > 0
    /\ \E k \in DOMAIN knowledge : knowledge[k].cells # {}

\* C26: with consistent observations, in the state in which add_knowledge returns
\* every sentence has a cell and 0 < count < |cells|, so its known_safes() and
\* known_mines() are empty; the knowledge base gets shorter in the clean-up step
\* only, and a direct mark_safe / mark_mine call leaves its length alone.
C26_OnlyUndetermined ==
    /\ []((pc = "idle" /\ op = "add_knowledge") =>
             \A k \in DOMAIN knowledge :
                 /\ knowledge[k].cells # {}
                 /\ 0 < knowledge[k].count
                 /\ knowledge[k].count < Cardinality(knowledge[k].cells)
                 /\ known_safes(knowledge[k]) = {}
                 /\ known_mines(knowledge[k]) = {})
    /\ [][Len(knowledge') < Len(knowledge) => pc = "cleanup"]_vars
    /\ [][(op' \in {"mark_safe", "mark_mine"} /\ marks' = marks + 1)
             => Len(knowledge') = Len(knowledge)]_vars

C26_Witness ==
    /\ pc = "cleanup"
    /\ marks > 0
    /\ \E k \in DOMAIN knowledge : knowledge[k].cells = {}
    /\ \E k \in DOMAIN knowledge : knowledge[k].cells # {}
    /\ mines # {}

====
